---------------------------- MODULE Spec2Model ----------------------------
(***************************************************************************)
(* The MIME map format: the binary codec of src/src/map.rs.                *)
(*                                                                         *)
(* A byte is a number in 0..255 and a buffer (Vec<u8>, &[u8]) a sequence   *)
(* of bytes.  A fixed-width integer (u32, u64, usize) and the bit pattern  *)
(* of an f32 are written as numerals in base 256, most significant digit   *)
(* first, u32 and f32 with 4 digits and u64 and usize with 8: 1.0f32 is    *)
(* 0x3F800000, the numeral <<63, 128, 0, 0>>.  The arithmetic on numerals  *)
(* is exact, so a 64-bit product wraps exactly where the machine's does.   *)
(* The target is a 64-bit one: usize has the width of u64 and the          *)
(* conversions between the two (try_into) cannot fail.                     *)
(*                                                                         *)
(* A call ends in one of three ways: Ok with a value, Err with one of the  *)
(* crate's errors, or a panic (an out-of-range slice, an arithmetic        *)
(* overflow in a build with overflow checks, a capacity overflow of Vec).  *)
(* The allocator is taken to satisfy every request within isize::MAX.      *)
(***************************************************************************)
EXTENDS Integers, Sequences, FiniteSets, TLC

VARIABLES pc, kind, value, prior, buffer, input, result, file, calls

vars == <<pc, kind, value, prior, buffer, input, result, file, calls>>

(***************************************************************************)
(* Constants of the format.                                                *)
(***************************************************************************)
CURRENT_VERSION == 1

HEADER_MAGIC == <<77, 73, 77, 69>>

HEADER_SIZE == 8

VERTEX_SIZE == 28

INDEX_SIZE == 4

\* std::mem::size_of::<u64>(), the width of every count and length prefix.
U64_SIZE == 8

\* std::mem::size_of::<u32>(), the width of the version, an index and an f32.
U32_SIZE == 4

\* size_of::<Sector>() on the 64-bit target: three meshes of two Vecs of 24 bytes.
SECTOR_MEM_SIZE == 144

(***************************************************************************)
(* Numerals.                                                               *)
(***************************************************************************)
Reverse(s) == [i \in 1..Len(s) |-> s[Len(s) + 1 - i]]

\* The numeral of n in `width` digits; n is a length or a small constant,
\* below 2^24, so its digits above the third are zero.
NatToNumeral(n, width) ==
    [i \in 1..width |->
        IF width - i = 0 THEN n % 256
        ELSE IF width - i = 1 THEN (n \div 256) % 256
        ELSE IF width - i = 2 THEN (n \div 65536) % 256
        ELSE 0]

\* Whether the numeral d is below 2^24, and then its value.
IsSmall(d) == \A i \in 1..(Len(d) - 3) : d[i] = 0

SmallValue(d) ==
    LET w == Len(d) IN d[w - 2] * 65536 + d[w - 1] * 256 + d[w]

\* n < d, n <= d and n = d, for a number n below 2^24 and a numeral d.
NatLtNumeral(n, d) == ~IsSmall(d) \/ n < SmallValue(d)

NatEqNumeral(n, d) == IsSmall(d) /\ n = SmallValue(d)

\* c * d for a constant c below 2^23: the digits of the product modulo
\* 256^Len(d), and whether the product exceeded them.
MulNumeral(c, d) ==
    LET RECURSIVE go(_, _, _)
        go(i, carry, acc) ==
            IF i = 0 THEN [digits |-> acc, overflow |-> carry > 0]
            ELSE LET p == d[i] * c + carry
                 IN  go(i - 1, p \div 256, <<p % 256>> \o acc)
    IN  go(Len(d), 0, <<>>)

\* a + b for two numerals of one width, likewise.
AddNumeral(a, b) ==
    LET RECURSIVE go(_, _, _)
        go(i, carry, acc) ==
            IF i = 0 THEN [digits |-> acc, overflow |-> carry > 0]
            ELSE LET p == a[i] + b[i] + carry
                 IN  go(i - 1, p \div 256, <<p % 256>> \o acc)
    IN  go(Len(a), 0, <<>>)

\* Whether a byte count (a product or sum with its overflow flag) exceeds
\* isize::MAX = 2^63 - 1, the most a Vec may hold.
ExceedsIsizeMax(p) == p.overflow \/ p.digits[1] >= 128

\* {integer}::to_le_bytes, f32::to_le_bytes.
to_le_bytes(n) == Reverse(n)

\* A decoder that takes the bytes most significant first.
from_be_bytes(b) == b

\* {integer}::from_le_bytes, f32::from_le_bytes.
from_le_bytes(b) == Reverse(b)

\* usize -> u64 (serialize: len().try_into()): never fails on this target.
usize_to_u64(n) == NatToNumeral(n, U64_SIZE)

\* buffer[a..b] for 0 <= a <= b <= buffer.len().
Slice(b, from, to) == SubSeq(b, from + 1, to)

\* buffer[a..]
SliceFrom(b, from) == SubSeq(b, from + 1, Len(b))

(***************************************************************************)
(* Outcomes of a call.                                                     *)
(***************************************************************************)
Ok(v) == [tag |-> "Ok", error |-> "", value |-> v]

Err(e) == [tag |-> "Err", error |-> e, value |-> <<>>]

Panic(what) == [tag |-> "Panic", error |-> what, value |-> <<>>]

IsOk(r) == r.tag = "Ok"

(***************************************************************************)
(* Vertex                                                                  *)
(***************************************************************************)
Vertex_new(x, y, z, color) == [x |-> x, y |-> y, z |-> z, color |-> color]

\* An encoder that writes the color's components last to first.
Vertex_serialize_abgr(self, buf) ==
    buf \o to_le_bytes(self.x) \o to_le_bytes(self.y) \o to_le_bytes(self.z)
        \o to_le_bytes(self.color[4]) \o to_le_bytes(self.color[3])
        \o to_le_bytes(self.color[2]) \o to_le_bytes(self.color[1])

Vertex_serialize(self, buf) ==
    buf \o to_le_bytes(self.x) \o to_le_bytes(self.y) \o to_le_bytes(self.z)
        \o to_le_bytes(self.color[1]) \o to_le_bytes(self.color[2])
        \o to_le_bytes(self.color[3]) \o to_le_bytes(self.color[4])

\* A decoder that takes the alpha from the bytes of the blue.
Vertex_deserialize_alpha_from_blue(buf) ==
    IF Len(buf) < VERTEX_SIZE THEN Err("BufferToSmallVertex")
    ELSE Ok(Vertex_new(from_le_bytes(Slice(buf, 0, 4)),
                       from_le_bytes(Slice(buf, 4, 8)),
                       from_le_bytes(Slice(buf, 8, 12)),
                       <<from_le_bytes(Slice(buf, 12, 16)),
                         from_le_bytes(Slice(buf, 16, 20)),
                         from_le_bytes(Slice(buf, 20, 24)),
                         from_le_bytes(Slice(buf, 20, 24))>>))

Vertex_deserialize(buf) ==
    IF Len(buf) < VERTEX_SIZE THEN Err("BufferToSmallVertex")
    ELSE LET x == from_le_bytes(Slice(buf, 0, 4))
             y == from_le_bytes(Slice(buf, 4, 8))
             z == from_le_bytes(Slice(buf, 8, 12))
             r == from_le_bytes(Slice(buf, 12, 16))
             g == from_le_bytes(Slice(buf, 16, 20))
             b == from_le_bytes(Slice(buf, 20, 24))
             a == from_le_bytes(Slice(buf, 24, 28))
         IN  Ok(Vertex_new(x, y, z, <<r, g, b, a>>))

(***************************************************************************)
(* Mesh                                                                    *)
(***************************************************************************)
Mesh_new(vertex_buffer, index_buffer) ==
    [vertex_buffer |-> vertex_buffer, index_buffer |-> index_buffer]

RECURSIVE SerializeVertices(_, _)
SerializeVertices(vs, buf) ==
    IF vs = <<>> THEN buf
    ELSE SerializeVertices(Tail(vs), Vertex_serialize(Head(vs), buf))

RECURSIVE SerializeIndices(_, _)
SerializeIndices(is, buf) ==
    IF is = <<>> THEN buf
    ELSE SerializeIndices(Tail(is), buf \o to_le_bytes(Head(is)))

\* An encoder that writes the indices before the vertices.
Mesh_serialize_indices_first(self, buf) ==
    LET vcount == usize_to_u64(Len(self.vertex_buffer))
        icount == usize_to_u64(Len(self.index_buffer))
        b1 == buf \o to_le_bytes(vcount)
        b2 == b1 \o to_le_bytes(icount)
        b3 == SerializeIndices(self.index_buffer, b2)
    IN  SerializeVertices(self.vertex_buffer, b3)

Mesh_serialize(self, buf) ==
    LET vcount == usize_to_u64(Len(self.vertex_buffer))
        icount == usize_to_u64(Len(self.index_buffer))
        b1 == buf \o to_le_bytes(vcount)
        b2 == b1 \o to_le_bytes(icount)
        b3 == SerializeVertices(self.vertex_buffer, b2)
    IN  SerializeIndices(self.index_buffer, b3)

\* Mesh::deserialize, lines 215-220: the vertices, at a stride of VERTEX_SIZE.
RECURSIVE ReadVertices(_, _, _, _)
\* Lines 218-219: Vertex::deserialize(buffer)?, then the push.
PushVertex(buf, i, n, acc, vertex) ==
    IF ~IsOk(vertex) THEN vertex
    ELSE ReadVertices(buf, i + 1, n, Append(acc, vertex.value))

ReadVertices(buf, i, n, acc) ==
    IF i = n THEN Ok(acc)
    ELSE PushVertex(buf, i, n, acc,
             Vertex_deserialize(Slice(buf, i * VERTEX_SIZE,
                                      i * VERTEX_SIZE + VERTEX_SIZE)))

\* Mesh::deserialize, lines 230-237: the indices, at a stride of INDEX_SIZE.
RECURSIVE ReadIndices(_, _, _, _)
ReadIndices(buf, i, n, acc) ==
    IF i = n THEN acc
    ELSE ReadIndices(buf, i + 1, n,
             Append(acc, from_le_bytes(Slice(buf, i * INDEX_SIZE,
                                             i * INDEX_SIZE + INDEX_SIZE))))

\* Lines 209 and 226: buffer.len() < SIZE * count, for the product `bytes`
\* as computed in usize (its digits are those of the wrapped product).
RegionTooSmall(len, bytes) == NatLtNumeral(len, bytes.digits)

\* Lines 224-239: the index buffer is allocated for the declared count
\* before the length is compared with it.
ReadIndexBuffer(buf, index_count, ibytes, vertex_buffer) ==
    IF ExceedsIsizeMax(ibytes) THEN Panic("capacity overflow")
    ELSE IF RegionTooSmall(Len(buf), ibytes) THEN Err("BufferToSmallSector")
    ELSE Ok(Mesh_new(vertex_buffer,
                     ReadIndices(buf, 0, SmallValue(index_count), <<>>)))

\* Lines 215-222: the vertices (an error of Vertex::deserialize is the
\* call's), then the buffer after them.
AfterVertices(buf, vertex_count, index_count, ibytes, vertex_buffer) ==
    IF ~IsOk(vertex_buffer) THEN vertex_buffer
    ELSE ReadIndexBuffer(SliceFrom(buf, SmallValue(vertex_count) * VERTEX_SIZE),
                         index_count, ibytes, vertex_buffer.value)

\* Lines 209-222: the length is compared with the vertices' bytes, then the
\* vertex buffer is allocated for the declared count.  `checks` is whether
\* the build panics on an arithmetic overflow (as a debug build does) or
\* wraps (as a release build does).
ReadVertexBuffer(buf, vertex_count, vbytes, index_count, ibytes, checks) ==
    IF vbytes.overflow /\ checks THEN Panic("attempt to multiply with overflow")
    ELSE IF RegionTooSmall(Len(buf), vbytes) THEN Err("BufferToSmallSector")
    ELSE IF ExceedsIsizeMax(vbytes) THEN Panic("capacity overflow")
    ELSE AfterVertices(buf, vertex_count, index_count, ibytes,
                       ReadVertices(buf, 0, SmallValue(vertex_count), <<>>))

\* Lines 195-207: the two counts, and the buffer after them.
MeshCounts(buf, vertex_count, index_count, checks) ==
    ReadVertexBuffer(SliceFrom(buf, 16),
                     vertex_count, MulNumeral(VERTEX_SIZE, vertex_count),
                     index_count, MulNumeral(INDEX_SIZE, index_count), checks)

Mesh_deserialize(buf, checks) ==
    IF Len(buf) < U64_SIZE * 2 THEN Err("BufferToSmallSector")
    ELSE MeshCounts(buf, from_le_bytes(Slice(buf, 0, 8)),
                    from_le_bytes(Slice(buf, 8, 16)), checks)

(***************************************************************************)
(* Sector                                                                  *)
(***************************************************************************)
Sector_new(floor_mesh, ceiling_mesh, wall_mesh) ==
    [floor_mesh |-> floor_mesh, ceiling_mesh |-> ceiling_mesh,
     wall_mesh |-> wall_mesh]

\* The length prefix of a block: temp_buffer.len() as a u64.
BlockSize(block) == usize_to_u64(Len(block))

\* An encoder whose length prefix counts what the buffer already holds too.
SerializeMeshBlockWholeLength(mesh, buf) ==
    buf \o to_le_bytes(usize_to_u64(Len(buf) + Len(Mesh_serialize(mesh, <<>>))))
        \o Mesh_serialize(mesh, <<>>)

\* Lines 283-290 (and 292-299, 301-308): one mesh into a temporary buffer,
\* then its byte length and its bytes appended to the buffer.
SerializeMeshBlock(mesh, buf) ==
    LET temp_buffer == Mesh_serialize(mesh, <<>>)
    IN  buf \o to_le_bytes(BlockSize(temp_buffer)) \o temp_buffer

\* An encoder that writes the ceiling's block before the floor's.
Sector_serialize_ceiling_first(self, buf) ==
    SerializeMeshBlock(self.wall_mesh,
        SerializeMeshBlock(self.floor_mesh,
            SerializeMeshBlock(self.ceiling_mesh, buf)))

Sector_serialize(self, buf) ==
    SerializeMeshBlock(self.wall_mesh,
        SerializeMeshBlock(self.ceiling_mesh,
            SerializeMeshBlock(self.floor_mesh, buf)))

\* Lines 325-333 (and 335-341, 343-348): the length prefix read with
\* buffer[0..8], then buffer[8..][0..size] handed to Mesh::deserialize; no
\* length is compared before either slice is taken.  The value is the mesh
\* and the buffer after the block.
MeshAndRest(mesh, rest) ==
    IF ~IsOk(mesh) THEN mesh ELSE Ok([mesh |-> mesh.value, rest |-> rest])

MeshBlock(buf, size, checks) ==
    IF NatLtNumeral(Len(buf), size)
    THEN Panic("range end index out of range for slice")
    ELSE MeshAndRest(Mesh_deserialize(Slice(buf, 0, SmallValue(size)), checks),
                     SliceFrom(buf, SmallValue(size)))

ReadMeshBlock(buf, checks) ==
    IF Len(buf) < 8 THEN Panic("range end index 8 out of range for slice")
    ELSE MeshBlock(SliceFrom(buf, 8), from_le_bytes(Slice(buf, 0, 8)), checks)

\* Lines 348-350: the wall's block, then the sector.
AfterWall(floor_mesh, ceiling_mesh, wall) ==
    IF ~IsOk(wall) THEN wall
    ELSE Ok(Sector_new(floor_mesh, ceiling_mesh, wall.value.mesh))

\* Lines 340-348: the ceiling's block, then the wall's.
AfterCeiling(floor_mesh, ceiling, checks) ==
    IF ~IsOk(ceiling) THEN ceiling
    ELSE AfterWall(floor_mesh, ceiling.value.mesh,
                   ReadMeshBlock(ceiling.value.rest, checks))

\* Lines 332-340: the floor's block, then the ceiling's.
AfterFloor(floor, checks) ==
    IF ~IsOk(floor) THEN floor
    ELSE AfterCeiling(floor.value.mesh,
                      ReadMeshBlock(floor.value.rest, checks), checks)

Sector_deserialize(buf, checks) == AfterFloor(ReadMeshBlock(buf, checks), checks)

(***************************************************************************)
(* Map                                                                     *)
(***************************************************************************)
Map_new(sectors) == [sectors |-> sectors]

\* An encoder whose length prefix counts its own 8 bytes too.
SerializeSectorBlockInclusive(sector, buf) ==
    buf \o to_le_bytes(usize_to_u64(8 + Len(Sector_serialize(sector, <<>>))))
        \o Sector_serialize(sector, <<>>)

\* Lines 400-407: one sector into a temporary buffer, then its byte length
\* and its bytes appended to the buffer.
SerializeSectorBlock(sector, buf) ==
    LET sector_buffer == Sector_serialize(sector, <<>>)
    IN  buf \o to_le_bytes(BlockSize(sector_buffer)) \o sector_buffer

RECURSIVE SerializeSectors(_, _)
SerializeSectors(sectors, buf) ==
    IF sectors = <<>> THEN buf
    ELSE SerializeSectors(Tail(sectors), SerializeSectorBlock(Head(sectors), buf))

Map_serialize(self, buf) ==
    LET b1 == buf \o HEADER_MAGIC
        b2 == b1 \o to_le_bytes(NatToNumeral(CURRENT_VERSION, U32_SIZE))
        b3 == b2 \o to_le_bytes(usize_to_u64(Len(self.sectors)))
    IN  SerializeSectors(self.sectors, b3)

\* A comparison of the first three bytes only.
MagicMismatch3(buf) == Slice(buf, 0, 3) # SubSeq(HEADER_MAGIC, 1, 3)

\* Line 430: magic != HEADER_MAGIC
MagicMismatch(buf) == Slice(buf, 0, 4) # HEADER_MAGIC

\* A comparison of the version's low byte only.
VersionMismatchLowByte(buf) == buf[5] # CURRENT_VERSION

\* Lines 434-437: version != CURRENT_VERSION
VersionMismatch(buf) ==
    from_le_bytes(Slice(buf, 4, 8)) # NatToNumeral(CURRENT_VERSION, U32_SIZE)

\* Lines 459-474: the sectors, each behind its length prefix; `offset` is the
\* cursor into the buffer after the sector count.  Neither slice is preceded
\* by a comparison with the buffer's length.
RECURSIVE ReadSectors(_, _, _, _, _, _)
\* Lines 469-473: Sector::deserialize(..)?, the push, and the cursor moved
\* past the block.
PushSector(buf, i, sector_count, next, acc, sector, checks) ==
    IF ~IsOk(sector) THEN sector
    ELSE ReadSectors(buf, i + 1, sector_count, next,
                     Append(acc, sector.value), checks)

\* Lines 467-473: buffer[start..start + sector_size], for start already past
\* the prefix and `end` the sum computed in usize.
SectorBlock(buf, i, sector_count, start, sector_size, end, acc, checks) ==
    IF end.overflow /\ checks THEN Panic("attempt to add with overflow")
    ELSE IF end.overflow THEN Panic("slice index starts after its end")
    ELSE IF NatLtNumeral(Len(buf), end.digits)
         THEN Panic("range end index out of range for slice")
    ELSE PushSector(buf, i, sector_count, start + SmallValue(sector_size), acc,
             Sector_deserialize(
                 Slice(buf, start, start + SmallValue(sector_size)), checks),
             checks)

\* Lines 460-466: the prefix at the cursor.
SectorPrefix(buf, i, sector_count, start, sector_size, acc, checks) ==
    SectorBlock(buf, i, sector_count, start, sector_size,
                AddNumeral(usize_to_u64(start), sector_size), acc, checks)

\* A loop that, after the last sector, requires the cursor at the buffer's end.
ReadSectorsToEnd(buf, i, sector_count, offset, acc, checks) ==
    IF NatEqNumeral(i, sector_count)
    THEN IF offset = Len(buf) THEN Ok(acc) ELSE Err("BufferToSmallMap")
    ELSE IF offset + 8 > Len(buf)
         THEN Panic("range end index out of range for slice")
    ELSE SectorPrefix(buf, i, sector_count, offset + 8,
                      from_le_bytes(Slice(buf, offset, offset + 8)),
                      acc, checks)

ReadSectors(buf, i, sector_count, offset, acc, checks) ==
    IF NatEqNumeral(i, sector_count) THEN Ok(acc)
    ELSE IF offset + 8 > Len(buf)
         THEN Panic("range end index out of range for slice")
    ELSE SectorPrefix(buf, i, sector_count, offset + 8,
                      from_le_bytes(Slice(buf, offset, offset + 8)),
                      acc, checks)

\* Line 476: Ok(Self::new(sectors))
MapOf(sectors) == IF ~IsOk(sectors) THEN sectors ELSE Ok(Map_new(sectors.value))

\* Lines 447-476: the sector count, the allocation of the sectors' Vec for
\* the declared count, and the sectors.
MapSectors(buf, sector_count, checks) ==
    IF ExceedsIsizeMax(MulNumeral(SECTOR_MEM_SIZE, sector_count))
    THEN Panic("capacity overflow")
    ELSE MapOf(ReadSectors(buf, 0, sector_count, 0, <<>>, checks))

Map_deserialize(buf, checks) ==
    IF Len(buf) < HEADER_SIZE THEN Err("BufferToSmallMap")
    ELSE IF MagicMismatch(buf) THEN Err("IncorrectMagic")
    ELSE IF VersionMismatch(buf) THEN Err("IncorrectVersion")
    ELSE IF Len(buf) - 8 < U64_SIZE THEN Err("BufferToSmallMap")
    ELSE MapSectors(SliceFrom(buf, 16), from_le_bytes(Slice(buf, 8, 16)), checks)

(***************************************************************************)
(* Map::save_to_file and the file its filename names.                      *)
(***************************************************************************)
NoFile == [exists |-> FALSE, bytes |-> <<>>]

FileOf(bytes) == [exists |-> TRUE, bytes |-> bytes]

\* Line 502-503: File::create(filename).map_err(Error::FileCreationFailed).
\* A success leaves an empty file, created or truncated; a failure leaves
\* what was there.
File_create(f, ok) ==
    [file |-> IF ok THEN FileOf(<<>>) ELSE f,
     result |-> IF ok THEN Ok(<<>>) ELSE Err("FileCreationFailed")]

\* A write whose failure is reported as the creation's.
write_all_as_creation(f, buf, written) ==
    [file |-> FileOf(f.bytes \o SubSeq(buf, 1, written)),
     result |-> IF written = Len(buf) THEN Ok(<<>>)
                ELSE Err("FileCreationFailed")]

\* Line 504-505: file.write_all(&buffer[..]).map_err(Error::FileWriteFailed).
\* `written` is how many bytes the file took: all of them, or fewer when a
\* write failed, and those stay in the file.
write_all(f, buf, written) ==
    [file |-> FileOf(f.bytes \o SubSeq(buf, 1, written)),
     result |-> IF written = Len(buf) THEN Ok(<<>>)
                ELSE Err("FileWriteFailed")]

\* One call of save_to_file, as it is recorded in `calls`.
Call(op, ok) == [op |-> op, ok |-> ok]

(***************************************************************************)
(* The values and buffers the calls are made with.                         *)
(***************************************************************************)
\* The most vertices and indices of a mesh, the most sectors of a map, and
\* the number of value patterns, raw buffer lengths and crafted tails.
MaxVertices == 2

MaxIndices == 2

MaxSectors == 2

MaxPattern == 3

MaxRaw == 31

MaxTail == 9

\* f32 bit patterns: 0.0, 1.0, 2.0, 3.0, 4.0, 5.0, 6.0, a NaN, -infinity,
\* 0x12345678, -1.2 and the smallest subnormal.
F32Samples ==
    << <<0, 0, 0, 0>>, <<63, 128, 0, 0>>, <<64, 0, 0, 0>>, <<64, 64, 0, 0>>,
       <<64, 128, 0, 0>>, <<64, 160, 0, 0>>, <<64, 192, 0, 0>>,
       <<127, 192, 0, 0>>, <<255, 128, 0, 0>>, <<18, 52, 86, 120>>,
       <<191, 153, 153, 154>>, <<0, 0, 0, 1>> >>

FloatAt(k) == F32Samples[(k % Len(F32Samples)) + 1]

\* u32 indices: 0, 1, 2, u32::MAX, 0x00010203 and 2^31; all but the first
\* few are beyond any vertex count here.
IndexSamples ==
    << <<0, 0, 0, 0>>, <<0, 0, 0, 1>>, <<255, 255, 255, 255>>, <<0, 0, 0, 2>>,
       <<0, 1, 2, 3>>, <<128, 0, 0, 0>> >>

IndexAt(k) == IndexSamples[(k % Len(IndexSamples)) + 1]

\* VertexAt(0) is the tests' Vertex::new(0.0, 1.0, 2.0, [3.0, 4.0, 5.0, 6.0]).
VertexAt(k) ==
    Vertex_new(FloatAt(k), FloatAt(k + 1), FloatAt(k + 2),
               <<FloatAt(k + 3), FloatAt(k + 4), FloatAt(k + 5), FloatAt(k + 6)>>)

MeshAt(k) ==
    LET nv == k % (MaxVertices + 1)
        ni == (k \div (MaxVertices + 1) + k) % (MaxIndices + 1)
    IN  Mesh_new([i \in 1..nv |-> VertexAt(k + 3 * i)],
                 [j \in 1..ni |-> IndexAt(k + j)])

SectorAt(k) == Sector_new(MeshAt(k), MeshAt(k + 4), MeshAt(2 * k + 5))

MapAt(n, k) == Map_new([i \in 1..n |-> SectorAt(k + i - 1)])

Patterns == 0..MaxPattern

\* The patterns of the meshes serialized on their own: enough of them for
\* meshes whose two counts differ, both above zero.
MeshPatterns == 0..(2 * MaxPattern + 2)

\* What a buffer holds before a serialize call appends to it.
Priors == {<<>>, <<1, 2, 3>>}

\* n bytes that differ from place to place.
Filler(n, b) == [i \in 1..n |-> (b + 37 * i) % 256]

FillBytes == {0, 200}

RawBuffers == {Filler(n, b) : n \in 0..MaxRaw, b \in FillBytes}

MagicSamples ==
    {HEADER_MAGIC, <<77, 73, 77, 70>>, <<109, 105, 109, 101>>, <<0, 73, 77, 69>>}

\* Versions 0, 1, 2, 256, 2^24 + 1 and u32::MAX.
VersionSamples ==
    {<<0, 0, 0, 0>>, <<0, 0, 0, 1>>, <<0, 0, 0, 2>>, <<0, 0, 1, 0>>,
     <<1, 0, 0, 1>>, <<255, 255, 255, 255>>}

\* A header of any of these magics and versions, a tail, and every prefix.
CraftedMaps ==
    {SubSeq(m \o to_le_bytes(v) \o Filler(MaxTail, b), 1, k) :
        m \in MagicSamples, v \in VersionSamples, b \in FillBytes,
        k \in 0..(HEADER_SIZE + MaxTail)}

Poke(b, pos, byte) == [b EXCEPT ![pos] = byte]

PokeBytes == {0, 64}

Trailers == {<<0>>, <<255, 1, 2>>}

\* What filename may name before save_to_file: no file, or a file of old bytes.
FileSamples == {NoFile, FileOf(<<9, 9, 9>>)}

\* How many bytes a failed write_all may have put into the file.
PartialWrites(b) == {0, 1, Len(b) \div 2, Len(b) - 1}

\* What may reach a decoder in place of the bytes b an encoder wrote: b
\* itself, b cut short anywhere, b with one byte overwritten, b with bytes
\* after it.
Untrusted(b) ==
    {SubSeq(b, 1, k) : k \in 0..Len(b)}
        \cup {Poke(b, pos, byte) : pos \in 1..Len(b), byte \in PokeBytes}
        \cup {b \o t : t \in Trailers}

(***************************************************************************)
(* The calls.  A behaviour is one serialize call followed by one           *)
(* deserialize call on what may have become of its bytes, or one           *)
(* deserialize call on a buffer that no encoder wrote.                     *)
(***************************************************************************)
Init ==
    /\ pc = "start"
    /\ kind = "none"
    /\ value = <<>>
    /\ prior = <<>>
    /\ buffer = <<>>
    /\ input = <<>>
    /\ result = Ok(<<>>)
    /\ file = NoFile
    /\ calls = <<>>

VertexSerialize ==
    \E k \in Patterns, p \in Priors :
        /\ pc = "start"
        /\ pc' = "serialized"
        /\ kind' = "Vertex"
        /\ value' = VertexAt(k)
        /\ prior' = p
        /\ buffer' = Vertex_serialize(VertexAt(k), p)
        /\ UNCHANGED <<input, result, file, calls>>

MeshSerialize ==
    \E k \in MeshPatterns, p \in Priors :
        /\ pc = "start"
        /\ pc' = "serialized"
        /\ kind' = "Mesh"
        /\ value' = MeshAt(k)
        /\ prior' = p
        /\ buffer' = Mesh_serialize(MeshAt(k), p)
        /\ UNCHANGED <<input, result, file, calls>>

SectorSerialize ==
    \E k \in Patterns, p \in Priors :
        /\ pc = "start"
        /\ pc' = "serialized"
        /\ kind' = "Sector"
        /\ value' = SectorAt(k)
        /\ prior' = p
        /\ buffer' = Sector_serialize(SectorAt(k), p)
        /\ UNCHANGED <<input, result, file, calls>>

MapSerialize ==
    \E n \in 0..MaxSectors, k \in Patterns, p \in Priors :
        /\ pc = "start"
        /\ pc' = "serialized"
        /\ kind' = "Map"
        /\ value' = MapAt(n, k)
        /\ prior' = p
        /\ buffer' = Map_serialize(MapAt(n, k), p)
        /\ UNCHANGED <<input, result, file, calls>>

\* The buffers a decoder of kind k may be called with in the current state:
\* at the start any of `raw`, and after a serialize call of the same kind
\* into an empty buffer, what may have become of the bytes it wrote.
Inputs(k, raw) ==
    IF pc = "start" THEN raw
    ELSE IF pc = "serialized" /\ kind = k /\ prior = <<>> THEN Untrusted(buffer)
    ELSE {}

VertexDeserialize ==
    \E in \in Inputs("Vertex", RawBuffers) :
        /\ pc' = "deserialized"
        /\ kind' = "Vertex"
        /\ input' = in
        /\ result' = Vertex_deserialize(in)
        /\ UNCHANGED <<value, prior, buffer, file, calls>>

MeshDeserialize ==
    \E in \in Inputs("Mesh", RawBuffers), checks \in BOOLEAN :
        /\ pc' = "deserialized"
        /\ kind' = "Mesh"
        /\ input' = in
        /\ result' = Mesh_deserialize(in, checks)
        /\ UNCHANGED <<value, prior, buffer, file, calls>>

SectorDeserialize ==
    \E in \in Inputs("Sector", RawBuffers), checks \in BOOLEAN :
        /\ pc' = "deserialized"
        /\ kind' = "Sector"
        /\ input' = in
        /\ result' = Sector_deserialize(in, checks)
        /\ UNCHANGED <<value, prior, buffer, file, calls>>

MapDeserialize ==
    \E in \in Inputs("Map", CraftedMaps), checks \in BOOLEAN :
        /\ pc' = "deserialized"
        /\ kind' = "Map"
        /\ input' = in
        /\ result' = Map_deserialize(in, checks)
        /\ UNCHANGED <<value, prior, buffer, file, calls>>

\* save_to_file, lines 496-499: the buffer, and the map serialized into it.
\* The only error of Map::serialize is that of usize -> u64, which cannot
\* fail, so the call goes on to File::create.
SaveSerialize ==
    \E n \in 0..MaxSectors, k \in Patterns, f \in FileSamples :
        /\ pc = "start"
        /\ pc' = "save_serialized"
        /\ kind' = "Save"
        /\ value' = MapAt(n, k)
        /\ prior' = <<>>
        /\ buffer' = Map_serialize(MapAt(n, k), <<>>)
        /\ input' = f
        /\ file' = f
        /\ calls' = <<Call("serialize", TRUE)>>
        /\ UNCHANGED result

\* save_to_file, lines 502-503: File::create, and the return if it failed.
SaveCreate ==
    \E ok \in BOOLEAN :
        /\ pc = "save_serialized"
        /\ pc' = IF ok THEN "save_created" ELSE "saved"
        /\ file' = File_create(file, ok).file
        /\ result' = File_create(file, ok).result
        /\ calls' = Append(calls, Call("create", ok))
        /\ UNCHANGED <<kind, value, prior, buffer, input>>

\* save_to_file, lines 504-507: write_all of the whole buffer, and the return.
SaveWrite ==
    \E written \in PartialWrites(buffer) \cup {Len(buffer)} :
        /\ pc = "save_created"
        /\ pc' = "saved"
        /\ file' = write_all(file, buffer, written).file
        /\ result' = write_all(file, buffer, written).result
        /\ calls' = Append(calls, Call("write_all", written = Len(buffer)))
        /\ UNCHANGED <<kind, value, prior, buffer, input>>

Next ==
    \/ VertexSerialize
    \/ MeshSerialize
    \/ SectorSerialize
    \/ MapSerialize
    \/ VertexDeserialize
    \/ MeshDeserialize
    \/ SectorDeserialize
    \/ MapDeserialize
    \/ SaveSerialize
    \/ SaveCreate
    \/ SaveWrite

Spec == Init /\ [][Next]_vars

(***************************************************************************)
(* What the properties speak of.                                           *)
(***************************************************************************)
\* The crate's buffer-too-small errors.
BufferTooSmallErrors ==
    {"BufferToSmallVertex", "BufferToSmallMesh", "BufferToSmallSector",
     "BufferToSmallMap"}

IsBufferTooSmall(r) == r.tag = "Err" /\ r.error \in BufferTooSmallErrors

\* The deserialize call of kind k has returned.
Decoded(k) == pc = "deserialized" /\ kind = k

\* The call was made after a serialize call, on what became of its bytes.
FromEncoder == buffer # <<>>

\* The 8 little-endian bytes of a length n < 2^24, written out.
LE64(n) == <<n % 256, (n \div 256) % 256, (n \div 65536) % 256, 0, 0, 0, 0, 0>>

\* The numeral whose little-endian bytes are b[at + 1 .. at + 4], written out.
U32At(b, at) == <<b[at + 4], b[at + 3], b[at + 2], b[at + 1]>>

HasValidHeader(b) ==
    /\ Len(b) >= 8
    /\ SubSeq(b, 1, 4) = <<77, 73, 77, 69>>
    /\ SubSeq(b, 5, 8) = <<1, 0, 0, 0>>

\* The byte length of a mesh's serialized form.
MeshBytes(mesh) == 16 + 28 * Len(mesh.vertex_buffer) + 4 * Len(mesh.index_buffer)

\* C1: deserialize of the bytes serialize wrote into an empty buffer succeeds
\* and returns the value that was serialized, for a Vertex, a Mesh, a Sector
\* and a Map alike (floats compared by their bits, indices whatever their size).
RoundTrip ==
    (pc = "deserialized" /\ FromEncoder /\ input = buffer)
        => (result.tag = "Ok" /\ result.value = value)

\* A Map of two different sectors, with an index that no vertex count here
\* reaches, has come back from its own bytes.
RoundTripWitness ==
    /\ Decoded("Map")
    /\ FromEncoder
    /\ input = buffer
    /\ result.tag = "Ok"
    /\ Len(value.sectors) = 2
    /\ value.sectors[1] # value.sectors[2]
    /\ \E s \in 1..2, j \in 1..MaxIndices :
           /\ j <= Len(value.sectors[s].floor_mesh.index_buffer)
           /\ ~IsSmall(value.sectors[s].floor_mesh.index_buffer[j])
           /\ value.sectors[s].floor_mesh.vertex_buffer # <<>>
           /\ value.sectors[s].floor_mesh # value.sectors[s].wall_mesh

\* C2: Map::deserialize of a strict prefix of the bytes Map::serialize wrote
\* returns a buffer-too-small error: it neither panics nor returns a Map.
TruncationSafety ==
    (/\ Decoded("Map")
     /\ FromEncoder
     /\ Len(input) < Len(buffer)
     /\ input = SubSeq(buffer, 1, Len(input)))
        => IsBufferTooSmall(result)

\* C3, as claimed: Map::deserialize of a buffer of at least 4 bytes whose
\* first 4 are not "MIME" fails with IncorrectMagic.
HeaderContractFrom4Bytes ==
    (/\ Decoded("Map")
     /\ Len(input) >= 4
     /\ SubSeq(input, 1, 4) # <<77, 73, 77, 69>>)
        => result = Err("IncorrectMagic")

\* C3, amended: Map::deserialize of a buffer of at least 8 bytes (a whole
\* header) whose first 4 are not "MIME" fails with IncorrectMagic, whatever
\* the rest holds.
HeaderContract ==
    (/\ Decoded("Map")
     /\ Len(input) >= 8
     /\ SubSeq(input, 1, 4) # <<77, 73, 77, 69>>)
        => result = Err("IncorrectMagic")

\* A buffer whose magic differs from "MIME" in its last byte only, with a
\* version that is not 1 either and bytes after the header, was refused for
\* its magic.
HeaderContractWitness ==
    /\ Decoded("Map")
    /\ Len(input) > 8
    /\ SubSeq(input, 1, 4) = <<77, 73, 77, 70>>
    /\ SubSeq(input, 5, 8) # <<1, 0, 0, 0>>
    /\ result = Err("IncorrectMagic")

\* C4: Map::deserialize of a buffer of at least 8 bytes that starts with
\* "MIME" and whose little-endian u32 at bytes 4..8 is not 1 fails with
\* IncorrectVersion, whatever follows the header.
VersionGate ==
    (/\ Decoded("Map")
     /\ Len(input) >= 8
     /\ SubSeq(input, 1, 4) = <<77, 73, 77, 69>>
     /\ SubSeq(input, 5, 8) # <<1, 0, 0, 0>>)
        => result = Err("IncorrectVersion")

\* A version above 1 whose low byte is 1 (2^24 + 1), with nothing after the
\* header, was refused.
VersionGateWitness ==
    /\ Decoded("Map")
    /\ Len(input) = 8
    /\ SubSeq(input, 1, 4) = <<77, 73, 77, 69>>
    /\ SubSeq(input, 5, 8) = <<1, 0, 0, 1>>
    /\ result = Err("IncorrectVersion")

\* Whether, walking `count` sectors from the start of b as Map::deserialize
\* does, a length prefix is not wholly there or declares more bytes than
\* follow it; the walk goes past a sector only if the sector decodes.
RECURSIVE SectorPrefixOverruns(_, _, _)
SectorPrefixOverruns(b, i, count) ==
    /\ ~NatEqNumeral(i, count)
    /\ \/ Len(b) < 8
       \/ NatLtNumeral(Len(b) - 8, U32At(b, 4) \o U32At(b, 0))
       \/ LET n == SmallValue(U32At(b, 4) \o U32At(b, 0))
          IN  /\ \E checks \in BOOLEAN :
                     IsOk(Sector_deserialize(SubSeq(b, 9, 8 + n), checks))
              /\ SectorPrefixOverruns(SubSeq(b, 9 + n, Len(b)), i + 1, count)

\* C5: Map::deserialize of a buffer with a valid header and a sector count
\* returns a buffer-too-small error, and does not panic, when a sector's
\* length prefix is not wholly present or declares more bytes than remain.
MapDecodeBoundsCheck ==
    (/\ Decoded("Map")
     /\ HasValidHeader(input)
     /\ Len(input) >= 16
     /\ SectorPrefixOverruns(SubSeq(input, 17, Len(input)), 0,
                             U32At(input, 12) \o U32At(input, 8)))
        => IsBufferTooSmall(result)

\* Whether, of the `blocks` mesh blocks from the start of b, one has its
\* length prefix cut short or declaring more bytes than follow it; the walk
\* goes past a block only if its mesh decodes.
RECURSIVE MeshPrefixOverruns(_, _)
MeshPrefixOverruns(b, blocks) ==
    /\ blocks > 0
    /\ \/ Len(b) < 8
       \/ NatLtNumeral(Len(b) - 8, U32At(b, 4) \o U32At(b, 0))
       \/ LET n == SmallValue(U32At(b, 4) \o U32At(b, 0))
          IN  /\ \E checks \in BOOLEAN :
                     IsOk(Mesh_deserialize(SubSeq(b, 9, 8 + n), checks))
              /\ MeshPrefixOverruns(SubSeq(b, 9 + n, Len(b)), blocks - 1)

\* C6: Sector::deserialize returns a buffer-too-small error, and does not
\* panic, when the length prefix of the floor, ceiling or wall block is
\* missing, cut short, or declares more bytes than remain after it.
SectorDecodeBoundsCheck ==
    (Decoded("Sector") /\ MeshPrefixOverruns(input, 3))
        => IsBufferTooSmall(result)

\* len < c * count, for the product in the integers (not wrapped).
LessThanProduct(len, c, count) ==
    MulNumeral(c, count).overflow \/ NatLtNumeral(len, MulNumeral(c, count).digits)

\* Whether the mesh buffer b is too short for what its two counts declare.
MeshTooShort(b) ==
    \/ Len(b) < 16
    \/ LessThanProduct(Len(b) - 16, 28, U32At(b, 4) \o U32At(b, 0))
    \/ LessThanProduct(
           Len(b) - 16 - 28 * SmallValue(U32At(b, 4) \o U32At(b, 0)),
           4, U32At(b, 12) \o U32At(b, 8))

\* C7: Mesh::deserialize returns a buffer-too-small error, and does not
\* panic, when the buffer has fewer than 16 bytes, fewer than vertex_count x
\* 28 bytes after the counts, or fewer than index_count x 4 bytes after the
\* vertices, for every 64-bit count, the products taken without wrap-around.
MeshDecodeBoundsCheck ==
    (Decoded("Mesh") /\ MeshTooShort(input)) => IsBufferTooSmall(result)

\* C8: Vertex::deserialize fails, with the vertex's buffer-too-small error,
\* exactly when the buffer has fewer than 28 bytes; otherwise it succeeds with
\* x, y, z, r, g, b, a read from bytes 0..28 as consecutive little-endian
\* 4-byte fields, whatever their values and whatever follows byte 28.
VertexDecode ==
    Decoded("Vertex") =>
        IF Len(input) < 28 THEN result = Err("BufferToSmallVertex")
        ELSE /\ result.tag = "Ok"
             /\ result.value.x = U32At(input, 0)
             /\ result.value.y = U32At(input, 4)
             /\ result.value.z = U32At(input, 8)
             /\ result.value.color =
                    <<U32At(input, 12), U32At(input, 16), U32At(input, 20),
                      U32At(input, 24)>>

\* A buffer of more than 28 bytes, its seven fields all different and the
\* alpha a NaN's bits, gave a vertex.
VertexDecodeWitness ==
    /\ Decoded("Vertex")
    /\ Len(input) > 28
    /\ result.tag = "Ok"
    /\ result.value.color[4] = <<127, 192, 0, 0>>
    /\ Cardinality({U32At(input, 4 * f) : f \in 0..6}) = 7

\* Whether b is exactly the sectors' blocks, each an 8-byte little-endian
\* length of the sector's serialized bytes followed by those bytes.
RECURSIVE IsSectorBlocks(_, _)
IsSectorBlocks(b, sectors) ==
    IF sectors = <<>> THEN b = <<>>
    ELSE LET bytes == Sector_serialize(Head(sectors), <<>>)
         IN  /\ Len(b) >= 8 + Len(bytes)
             /\ SubSeq(b, 1, 8) = LE64(Len(bytes))
             /\ SubSeq(b, 9, 8 + Len(bytes)) = bytes
             /\ IsSectorBlocks(SubSeq(b, 9 + Len(bytes), Len(b)), Tail(sectors))

RECURSIVE SectorBlocksLength(_)
SectorBlocksLength(sectors) ==
    IF sectors = <<>> THEN 0
    ELSE 8 + Len(Sector_serialize(Head(sectors), <<>>))
           + SectorBlocksLength(Tail(sectors))

\* C9: Map::serialize into an empty buffer writes "MIME", the version 1 in 4
\* little-endian bytes, the sector count in 8, and then for each sector in
\* order the 8-byte length of its serialized bytes and those bytes: 16 bytes
\* and the blocks in all, 16 bytes for a Map without sectors.
MapEncodeLayout ==
    (pc = "serialized" /\ kind = "Map" /\ prior = <<>>) =>
        /\ Len(buffer) = 16 + SectorBlocksLength(value.sectors)
        /\ SubSeq(buffer, 1, 4) = <<77, 73, 77, 69>>
        /\ SubSeq(buffer, 5, 8) = <<1, 0, 0, 0>>
        /\ SubSeq(buffer, 9, 16) = LE64(Len(value.sectors))
        /\ IsSectorBlocks(SubSeq(buffer, 17, Len(buffer)), value.sectors)
        /\ (value.sectors = <<>> => Len(buffer) = 16)

\* A Map of two sectors of different lengths has been serialized.
MapEncodeLayoutWitness ==
    /\ pc = "serialized"
    /\ kind = "Map"
    /\ prior = <<>>
    /\ Len(value.sectors) = 2
    /\ Len(Sector_serialize(value.sectors[1], <<>>))
           # Len(Sector_serialize(value.sectors[2], <<>>))
    /\ Len(buffer) > 16

\* Whether b starts with the mesh's block (the 8-byte little-endian byte
\* length 16 + 28 V + 4 I, then the mesh's serialized bytes).
StartsWithMeshBlock(b, mesh) ==
    /\ Len(b) >= 8 + MeshBytes(mesh)
    /\ SubSeq(b, 1, 8) = LE64(MeshBytes(mesh))
    /\ SubSeq(b, 9, 8 + MeshBytes(mesh)) = Mesh_serialize(mesh, <<>>)

\* C10: Sector::serialize writes three blocks and nothing else, the floor's,
\* the ceiling's and the wall's in that order, each the 8-byte little-endian
\* byte length of the mesh's serialized form (16 + 28 V + 4 I, not a count
\* of elements) followed by that form.
SectorEncodeLayout ==
    (pc = "serialized" /\ kind = "Sector" /\ prior = <<>>) =>
        LET f == MeshBytes(value.floor_mesh)
            c == MeshBytes(value.ceiling_mesh)
            w == MeshBytes(value.wall_mesh)
        IN  /\ Len(buffer) = (8 + f) + (8 + c) + (8 + w)
            /\ StartsWithMeshBlock(buffer, value.floor_mesh)
            /\ StartsWithMeshBlock(SubSeq(buffer, 9 + f, Len(buffer)),
                                   value.ceiling_mesh)
            /\ StartsWithMeshBlock(SubSeq(buffer, 17 + f + c, Len(buffer)),
                                   value.wall_mesh)

\* A Sector whose three meshes have three different byte lengths, none the
\* number of its elements, has been serialized.
SectorEncodeLayoutWitness ==
    /\ pc = "serialized"
    /\ kind = "Sector"
    /\ prior = <<>>
    /\ Cardinality({MeshBytes(value.floor_mesh), MeshBytes(value.ceiling_mesh),
                    MeshBytes(value.wall_mesh)}) = 3
    /\ value.floor_mesh.vertex_buffer # <<>>
    /\ value.floor_mesh.index_buffer # <<>>

\* Whether the 28 bytes of b after the first `at` are the seven fields of the
\* vertex v (x, y, z, r, g, b, a), each in 4 little-endian bytes.
IsVertexAt(b, at, v) ==
    /\ U32At(b, at) = v.x
    /\ U32At(b, at + 4) = v.y
    /\ U32At(b, at + 8) = v.z
    /\ U32At(b, at + 12) = v.color[1]
    /\ U32At(b, at + 16) = v.color[2]
    /\ U32At(b, at + 20) = v.color[3]
    /\ U32At(b, at + 24) = v.color[4]

\* C11: Mesh::serialize into an empty buffer writes the vertex count V in 8
\* little-endian bytes, the index count I in 8, the V vertices in their order
\* at a stride of 28 bytes, and the I indices in their order in 4
\* little-endian bytes each: 16 + 28 V + 4 I bytes, the first index at byte
\* 16 + 28 V.
MeshEncodeLayout ==
    (pc = "serialized" /\ kind = "Mesh" /\ prior = <<>>) =>
        /\ Len(buffer) = 16 + 28 * Len(value.vertex_buffer)
                             + 4 * Len(value.index_buffer)
        /\ SubSeq(buffer, 1, 8) = LE64(Len(value.vertex_buffer))
        /\ SubSeq(buffer, 9, 16) = LE64(Len(value.index_buffer))
        /\ \A i \in 1..Len(value.vertex_buffer) :
               IsVertexAt(buffer, 16 + 28 * (i - 1), value.vertex_buffer[i])
        /\ \A j \in 1..Len(value.index_buffer) :
               U32At(buffer, 16 + 28 * Len(value.vertex_buffer) + 4 * (j - 1))
                   = value.index_buffer[j]

\* A Mesh of two different vertices and of indices, fewer or more than the
\* vertices, has been serialized.
MeshEncodeLayoutWitness ==
    /\ pc = "serialized"
    /\ kind = "Mesh"
    /\ prior = <<>>
    /\ Len(value.vertex_buffer) = 2
    /\ value.vertex_buffer[1] # value.vertex_buffer[2]
    /\ value.index_buffer # <<>>
    /\ Len(value.index_buffer) # Len(value.vertex_buffer)

\* C12: Vertex::serialize into an empty buffer writes exactly 28 bytes, the
\* fields x, y, z, r, g, b, a in that order, each the 4 little-endian bytes
\* of its bits; the call has no outcome but this one.
VertexEncodeLayout ==
    (pc = "serialized" /\ kind = "Vertex" /\ prior = <<>>) =>
        /\ Len(buffer) = 28
        /\ IsVertexAt(buffer, 0, value)
        /\ buffer = Reverse(value.x) \o Reverse(value.y) \o Reverse(value.z)
                        \o Reverse(value.color[1]) \o Reverse(value.color[2])
                        \o Reverse(value.color[3]) \o Reverse(value.color[4])

\* A Vertex whose seven fields all differ, one of them a NaN's bits, has
\* been serialized.
VertexEncodeLayoutWitness ==
    /\ pc = "serialized"
    /\ kind = "Vertex"
    /\ prior = <<>>
    /\ Cardinality({value.x, value.y, value.z} \cup
                       {value.color[c] : c \in 1..4}) = 7
    /\ \E c \in 1..4 : value.color[c] = <<127, 192, 0, 0>>

\* The steps of save_to_file, in the order of the code.
SaveSteps == <<"serialize", "create", "write_all">>

\* The i-th step of the call was taken and failed.
StepFailed(i) == Len(calls) >= i /\ ~calls[i].ok

\* C13: Map::save_to_file serializes in memory, creates (truncates) the file
\* and writes the whole buffer once, in that order and each at most once,
\* with no step after a failed one.  Until File::create is called, and if
\* serialization fails, the file is as it was found; a failed creation gives
\* FileCreationFailed and no write; a failed write gives FileWriteFailed; Ok
\* is returned only after the creation and the whole write both succeeded.
SaveOrdering ==
    kind = "Save" =>
        /\ Len(calls) <= 3
        /\ \A i \in 1..Len(calls) : calls[i].op = SaveSteps[i]
        /\ \A i \in 1..(Len(calls) - 1) : calls[i].ok
        /\ (Len(calls) < 2 \/ StepFailed(1)) => file = input
        /\ StepFailed(1) => (pc = "saved" /\ result.tag = "Err")
        /\ StepFailed(2) =>
               (pc = "saved" /\ result = Err("FileCreationFailed")
                    /\ Len(calls) = 2)
        /\ StepFailed(3) => (pc = "saved" /\ result = Err("FileWriteFailed"))
        /\ (pc = "saved" /\ result.tag = "Ok") =>
               /\ calls = <<Call("serialize", TRUE), Call("create", TRUE),
                            Call("write_all", TRUE)>>
               /\ buffer = Map_serialize(value, <<>>)
               /\ file = FileOf(buffer)
        /\ (pc = "saved" /\ result.tag = "Err") =>
               \E i \in 1..3 : StepFailed(i)
        /\ pc = "saved" => result.tag # "Panic"

\* The write of a Map of two sectors over a file of old bytes failed part of
\* the way: the file is cut to what was written and the error is the write's.
SaveOrderingWitness ==
    /\ kind = "Save"
    /\ pc = "saved"
    /\ Len(value.sectors) = 2
    /\ input = FileOf(<<9, 9, 9>>)
    /\ calls = <<Call("serialize", TRUE), Call("create", TRUE),
                 Call("write_all", FALSE)>>
    /\ Len(file.bytes) > 1
    /\ Len(file.bytes) < Len(buffer)
    /\ result = Err("FileWriteFailed")

\* C14: bytes after the declared sectors are ignored.  Map::deserialize of
\* the bytes Map::serialize wrote followed by more bytes returns the Map that
\* was serialized; and whenever Map::deserialize has succeeded on a buffer,
\* it succeeds with the same Map on that buffer followed by more bytes.
TrailingBytesIgnored ==
    /\ (/\ Decoded("Map")
        /\ FromEncoder
        /\ \E t \in Trailers : input = buffer \o t)
           => result = Ok(value)
    /\ (Decoded("Map") /\ result.tag = "Ok")
           => \A t \in Trailers, checks \in BOOLEAN :
                  Map_deserialize(input \o t, checks) = result

\* The bytes of a Map of two sectors, with three more bytes after them, gave
\* that Map.
TrailingBytesIgnoredWitness ==
    /\ Decoded("Map")
    /\ FromEncoder
    /\ input = buffer \o <<255, 1, 2>>
    /\ Len(value.sectors) = 2
    /\ result = Ok(value)

\* What the serialize call of kind k writes for the value v into an empty
\* buffer.
Encoded(k, v) ==
    IF k = "Vertex" THEN Vertex_serialize(v, <<>>)
    ELSE IF k = "Mesh" THEN Mesh_serialize(v, <<>>)
    ELSE IF k = "Sector" THEN Sector_serialize(v, <<>>)
    ELSE Map_serialize(v, <<>>)

\* C15: serialize appends.  After Vertex::serialize, Mesh::serialize,
\* Sector::serialize or Map::serialize on a buffer that held the bytes p, the
\* buffer is p, unchanged, followed by exactly what the same call writes into
\* an empty buffer; the byte-length prefixes of Sector::serialize and
\* Map::serialize count the block they precede and not p.
SerializeAppends ==
    pc = "serialized" =>
        /\ Len(buffer) >= Len(prior)
        /\ SubSeq(buffer, 1, Len(prior)) = prior
        /\ SubSeq(buffer, Len(prior) + 1, Len(buffer)) = Encoded(kind, value)
        /\ kind = "Vertex" => Len(buffer) = Len(prior) + 28
        /\ kind = "Mesh" => Len(buffer) = Len(prior) + MeshBytes(value)
        /\ kind = "Sector" =>
               SubSeq(buffer, Len(prior) + 1, Len(prior) + 8)
                   = LE64(MeshBytes(value.floor_mesh))
        /\ (kind = "Map" /\ value.sectors # <<>>) =>
               SubSeq(buffer, Len(prior) + 17, Len(prior) + 24)
                   = LE64(24 + MeshBytes(value.sectors[1].floor_mesh)
                             + MeshBytes(value.sectors[1].ceiling_mesh)
                             + MeshBytes(value.sectors[1].wall_mesh))

\* A Map of two sectors has been serialized into a buffer that held bytes.
SerializeAppendsWitness ==
    /\ pc = "serialized"
    /\ kind = "Map"
    /\ prior = <<1, 2, 3>>
    /\ Len(value.sectors) = 2
    /\ Len(buffer) > Len(prior) + 16

=============================================================================
